---- MODULE Spec2Model ----
(***************************************************************************)
(* Model of the Points style (point + text label rendering): per-tile      *)
(* feature queue, addFeature styling, endData with its two collision       *)
(* passes and their callbacks, and the quad builders.                      *)
(***************************************************************************)
EXTENDS Integers, Sequences, FiniteSets, TLC

VARIABLES
    env,                      \* style-level settings and the draw parameters in use
    generation,               \* this.generation of the style
    tiles,                    \* tile descriptors: [generation, canceled] per tile id
    queues,                   \* this.queues: tile id -> queued items (<<>> = no entry)
    tile_data,                \* this.tile_data: tile id -> started or not
    collision_styles,         \* Collision.addStyle registrations: <<group, tile id>>
    texture_missing_sprites,  \* this.texture_missing_sprites: <<texture, sprite>>
    nlog,                     \* missing-sprite messages logged, per <<texture, sprite>>
    feature_style,            \* this.feature_style (id of the style object, 0 = unset)
    batches,                  \* one record per endData call that drained a queue
    ncalls,                   \* number of addFeature and endData calls made so far
    ret,                      \* the last endData call: its number, tile and outcome
    quad,                     \* last label handed to the quad builders and the calls made
    tile_textures,            \* textures of the tile data handed over, per tile id
    enabled,                  \* Light.enabled
    blocks,                   \* ShaderProgram.blocks: block name -> injected sources
    last_inject               \* the last Light.inject call: its lights, Light.enabled then

\* the state of shader lighting
lighting == <<enabled, blocks, last_inject>>

vars == <<env, generation, tiles, queues, tile_data, collision_styles,
          texture_missing_sprites, nlog, feature_style, batches, ncalls, ret, quad,
          tile_textures, enabled, blocks, last_inject>>

\* ------------------------------------------------------------------ bounds
MaxCalls == 4
MaxGeneration == 1
MaxLog == 2
MaxSegments == 3
MaxTextures == 2

\* tile ids
Tiles == {1, 2}

\* ------------------------------------------------------------ small helpers
Min(a, b) == IF a < b THEN a ELSE b

Range(s) == {s[i] : i \in 1..Len(s)}

RECURSIVE SumSeq(_)
SumSeq(s) == IF s = <<>> THEN 0 ELSE Head(s) + SumSeq(Tail(s))

\* ------------------------------------------------- textures and sprites
\* Texture.textures: "plain" has no sprites, "atlas" has the sprites below
Textures == {"plain", "atlas"}
AtlasSprites == {"a", "big"}
SpriteNames == {"undef", "a", "big", "gone", "lost"}

\* Texture.getSpriteInfo(texture, sprite).size
SpriteSize(sprite) == IF sprite = "big" THEN <<300, 20>> ELSE <<32, 32>>

\* hasSprites (style)
hasSprites(texture) == texture = "atlas"

\* getSpriteInfo (style, sprite): <<>> when the sprite does not resolve
SpriteInfo(sprite) == IF sprite \in AtlasSprites THEN <<SpriteSize(sprite)>> ELSE <<>>

\* getSpriteInfo's bookkeeping: does this lookup find a missing sprite
SpriteMissing(sprite) == sprite # "undef" /\ SpriteInfo(sprite) = <<>>

\* the lookups parseSprite makes, in order: sprite, then sprite_default
\* only when the first did not resolve
SpriteLookups(draw) ==
    IF SpriteInfo(draw.sprite) # <<>> THEN <<draw.sprite>>
    ELSE <<draw.sprite, draw.sprite_default>>

\* parseSprite (style, draw, context)
parseSprite(draw) ==
    IF SpriteInfo(draw.sprite) # <<>> THEN SpriteInfo(draw.sprite)
    ELSE SpriteInfo(draw.sprite_default)

\* ------------------------------------------------------ addFeature: size
MaxSize == 256

\* style.size before the outline is added: explicit size (a scalar is expanded
\* to both dimensions), else the sprite size, else [16, 16]
BaseSize(draw, sprite_info) ==
    IF draw.size = <<>>
    THEN IF sprite_info # <<>> THEN sprite_info[1] ELSE <<16, 16>>
    ELSE IF Len(draw.size) = 1 THEN <<draw.size[1], draw.size[1]>> ELSE draw.size

\* style.outline_width: evaluated width, or the default when it is 0 / undefined
OutlineWidth(draw) ==
    IF draw.outline = <<>> THEN 0
    ELSE IF draw.outline[1].width # 0 THEN draw.outline[1].width
    ELSE env.outline_width

\* style.outline_color is set
OutlineColor(draw) == draw.outline # <<>> /\ draw.outline[1].color

\* style.size with the outline incorporated
OutlinedSize(draw, sprite_info) ==
    LET s == BaseSize(draw, sprite_info)
        w == OutlineWidth(draw)
    IN  IF w # 0 /\ OutlineColor(draw) THEN <<s[1] + w, s[2] + w>> ELSE s

ClampSizeFirstOnly(s) == <<Min(s[1], MaxSize), s[2]>>

\* size will be scaled to 16-bit signed int: max width and height of 256 pixels
ClampSize(s) == <<Min(s[1], MaxSize), Min(s[2], MaxSize)>>

StyleSize(draw, sprite_info) == ClampSize(OutlinedSize(draw, sprite_info))

\* ------------------------------------------------------------ buildLabels
PLACEMENT == {"VERTEX", "MIDPOINT", "SPACED", "CENTROID"}

\* new LabelPoint(position, size, options)
LabelPoint(position, size) == [position |-> position, size |-> size]

RECURSIVE Concat(_)
Concat(ss) == IF ss = <<>> THEN <<>> ELSE Head(ss) \o Concat(Tail(ss))

Abs(x) == IF x < 0 THEN -x ELSE x

LineLength(line) ==
    SumSeq([i \in 1..(IF Len(line) = 0 THEN 0 ELSE Len(line) - 1) |->
                Abs(line[i + 1] - line[i])])

\* placePointsOnLine(line, size, options): the line-placement strategies
placePointsOnLine(line, size, options) ==
    IF options.placement = "VERTEX"
    THEN [i \in 1..Len(line) |-> LabelPoint(line[i], size)]
    ELSE IF options.placement = "MIDPOINT"
    THEN [i \in 1..(IF Len(line) = 0 THEN 0 ELSE Len(line) - 1) |->
              LabelPoint((line[i] + line[i + 1]) \div 2, size)]
    ELSE IF options.placement = "SPACED"
    THEN IF options.placement_spacing <= 0
              \/ LineLength(line) < options.placement_spacing
         THEN <<>>
         ELSE [k \in 1..(LineLength(line) \div options.placement_spacing) |->
                  LabelPoint(line[1] + k * options.placement_spacing, size)]
    ELSE <<>>

\* Geo.centroid(polygon): a point of the outer ring
centroid(rings) == IF rings = <<>> \/ rings[1] = <<>> THEN 0 ELSE rings[1][1]

\* Geo.multiCentroid(polygons)
multiCentroid(polys) == IF polys = <<>> THEN 0 ELSE centroid(polys[1])

\* labels of every ring of one polygon
RingLabels(rings, size, options) ==
    Concat([ln \in 1..Len(rings) |-> placePointsOnLine(rings[ln], size, options)])

buildLabelsRingsOnly(size, geometry, options) ==
    LET c == geometry.coordinates IN
    IF geometry.type = "Point" THEN <<LabelPoint(c, size)>>
    ELSE IF geometry.type = "MultiPoint"
    THEN [i \in 1..Len(c) |-> LabelPoint(c[i], size)]
    ELSE IF geometry.type = "LineString" THEN placePointsOnLine(c, size, options)
    ELSE IF geometry.type = "MultiLineString"
    THEN Concat([ln \in 1..Len(c) |-> placePointsOnLine(c[ln], size, options)])
    ELSE IF geometry.type = "Polygon" THEN RingLabels(c, size, options)
    ELSE IF geometry.type = "MultiPolygon"
    THEN Concat([p \in 1..Len(c) |-> RingLabels(c[p], size, options)])
    ELSE <<>>

buildLabelsDefaultPoint(size, geometry, options) ==
    LET c == geometry.coordinates IN
    IF geometry.type = "MultiPoint"
    THEN [i \in 1..Len(c) |-> LabelPoint(c[i], size)]
    ELSE IF geometry.type = "LineString" THEN placePointsOnLine(c, size, options)
    ELSE IF geometry.type = "MultiLineString"
    THEN Concat([ln \in 1..Len(c) |-> placePointsOnLine(c[ln], size, options)])
    ELSE IF geometry.type = "Polygon"
    THEN IF options.placement = "CENTROID"
         THEN <<LabelPoint(centroid(c), size)>>
         ELSE RingLabels(c, size, options)
    ELSE IF geometry.type = "MultiPolygon"
    THEN IF options.placement = "CENTROID"
         THEN <<LabelPoint(multiCentroid(c), size)>>
         ELSE Concat([p \in 1..Len(c) |-> RingLabels(c[p], size, options)])
    ELSE <<LabelPoint(c, size)>>

\* buildLabels (size, geometry, options)
buildLabels(size, geometry, options) ==
    LET c == geometry.coordinates IN
    IF geometry.type = "Point" THEN <<LabelPoint(c, size)>>
    ELSE IF geometry.type = "MultiPoint"
    THEN [i \in 1..Len(c) |-> LabelPoint(c[i], size)]
    ELSE IF geometry.type = "LineString" THEN placePointsOnLine(c, size, options)
    ELSE IF geometry.type = "MultiLineString"
    THEN Concat([ln \in 1..Len(c) |-> placePointsOnLine(c[ln], size, options)])
    ELSE IF geometry.type = "Polygon"
    THEN IF options.placement = "CENTROID"
         THEN <<LabelPoint(centroid(c), size)>>
         ELSE RingLabels(c, size, options)
    ELSE IF geometry.type = "MultiPolygon"
    THEN IF options.placement = "CENTROID"
         THEN <<LabelPoint(multiCentroid(c), size)>>
         ELSE Concat([p \in 1..Len(c) |-> RingLabels(c[p], size, options)])
    ELSE <<>>

\* ------------------------------------------------------------- addFeature
\* style.texture: the draw's texture, or the style's default texture
StyleTexture(draw) == IF draw.texture # "undef" THEN draw.texture ELSE env.texture

\* the sprites getSpriteInfo finds missing while parseSprite runs
MissingSprites(draw) ==
    {<<StyleTexture(draw), s>> : s \in {x \in Range(SpriteLookups(draw)) : SpriteMissing(x)}}

\* does addFeature return before queueing anything
Skipped(draw) ==
    \/ ~draw.color /\ StyleTexture(draw) = "undef"
    \/ hasSprites(StyleTexture(draw)) /\ parseSprite(draw) = <<>>

\* A priority value k * (2^32 - 1) + n / 2 is the record [max |-> k, halves |-> n]:
\* -1 >>> 0 = 4294967295 is [max |-> 1, halves |-> 0], the number n is
\* [max |-> 0, halves |-> 2 * n]. The order below is the order of the numbers
\* as long as the halves stay far below 2^32.
PriorityValue(k, n) == [max |-> k, halves |-> n]

\* a <= b
PriorityLeq(a, b) == a.max < b.max \/ (a.max = b.max /\ a.halves <= b.halves)

\* Math.max(a, b)
PriorityMax(a, b) == IF PriorityLeq(a, b) THEN b ELSE a

\* a + 0.5
PlusHalf(a) == [a EXCEPT !.halves = @ + 1]

\* computeLayout: layout.priority for a draw whose priority is p
\* (<<>> when the draw sets none, <<n>> when it is, or evaluates to, n)
computeLayoutPriority(p) ==
    IF p # <<>> THEN PriorityValue(0, 2 * p[1]) ELSE PriorityValue(1, 0)

\* the truth value JavaScript gives draw.text.priority
PriorityTruthy(p) == p # <<>> /\ p[1] # 0

\* tf.layout.priority as parseTextFeature leaves it: the text draw's own
\* layout, computed by computeLayout
ParsedTextPriority(draw) == computeLayoutPriority(draw.text_priority)

\* tf.layout.priority after addFeature attached the text to its point
TextLayoutPriority(draw) ==
    LET parent == computeLayoutPriority(draw.priority)
        own    == ParsedTextPriority(draw)
    IN  IF PriorityTruthy(draw.text_priority)
        THEN PriorityMax(own, PlusHalf(parent))
        ELSE PlusHalf(parent)

\* the text feature of the queued item: none, or one with its layout
TextFeature(draw) ==
    IF draw.text = "none" THEN <<>>
    ELSE <<[layout |-> [priority |-> TextLayoutPriority(draw)]]>>

\* the style object addFeature builds for the queued item
FeatureStyle(draw) ==
    [size      |-> StyleSize(draw, IF hasSprites(StyleTexture(draw))
                                   THEN parseSprite(draw) ELSE <<>>),
     texcoords |-> IF hasSprites(StyleTexture(draw)) THEN <<"sprite">> ELSE <<>>,
     placement |-> draw.placement,
     placement_spacing |-> draw.placement_spacing,
     angle     |-> draw.angle,
     priority  |-> computeLayoutPriority(draw.priority)]

\* the queued item { feature, draw, context, style, text_feature }
QueueItem(id, feature, draw) ==
    [id       |-> id,
     geometry |-> feature,
     draw     |-> draw,
     style    |-> FeatureStyle(draw),
     text     |-> draw.text,
     text_feature |-> TextFeature(draw)]

RegistrationsPointsOnly(t, draw) == {<<"points", t>>}

\* Collision.addStyle calls of addFeature for a feature it queues
Registrations(t, draw) ==
    {<<"points", t>>} \cup (IF draw.text # "none" THEN {<<"text", t>>} ELSE {})

StaleNever(t) == FALSE

\* tile.generation !== this.generation
Stale(t) == tiles[t].generation # generation

\* addFeature (feature, draw, context), with queueFeature (q, tile)
AddFeature(t, feature, draw) ==
    /\ ncalls < MaxCalls
    /\ ncalls' = ncalls + 1
    /\ IF Stale(t)
       THEN UNCHANGED <<queues, tile_data, collision_styles,
                        texture_missing_sprites, nlog>>
       ELSE IF ~draw.color /\ StyleTexture(draw) = "undef"
       THEN UNCHANGED <<queues, tile_data, collision_styles,
                        texture_missing_sprites, nlog>>
       ELSE LET missing == IF hasSprites(StyleTexture(draw))
                           THEN MissingSprites(draw) ELSE {}
                fresh   == missing \ texture_missing_sprites
            IN  /\ \A p \in fresh : nlog[p] < MaxLog
                /\ texture_missing_sprites' = texture_missing_sprites \cup missing
                /\ nlog' = [p \in DOMAIN nlog |->
                               IF p \in fresh THEN nlog[p] + 1 ELSE nlog[p]]
                /\ IF Skipped(draw)
                   THEN UNCHANGED <<queues, tile_data, collision_styles>>
                   ELSE /\ tile_data' = [tile_data EXCEPT ![t] = TRUE]
                        /\ queues' = [queues EXCEPT ![t] =
                               Append(@, QueueItem(ncalls + 1, feature, draw))]
                        /\ collision_styles' =
                               collision_styles \cup Registrations(t, draw)
    /\ UNCHANGED <<env, lighting, tile_textures, generation, tiles, feature_style, batches, ret, quad>>

\* ---------------------------------------------------------------- endData
NoLink == <<>>

\* key of the object built for label li of the queued item id
Key(id, li) == <<id, li>>

PointLinkedAlways(q, li) == Key(q.id, li)

PointLinkedNever(q, li) == NoLink

\* point_obj.linked: the two-way link, made unless the text feature is optional
PointLinked(q, li) == IF q.text = "required" THEN Key(q.id, li) ELSE NoLink

\* the point objects endData builds for one queued item, one per label
PointObjs(q) ==
    LET labels == buildLabels(q.style.size, q.geometry, q.style)
    IN  [li \in 1..Len(labels) |->
            [key    |-> Key(q.id, li),
             style  |-> q.id,
             label  |-> labels[li],
             linked |-> IF q.text # "none" THEN PointLinked(q, li) ELSE NoLink]]

\* the text objects endData builds for one queued item: one per label when the
\* item has a text feature, each linked to its point object
TextObjs(q) ==
    LET labels == buildLabels(q.style.size, q.geometry, q.style)
    IN  IF q.text = "none" THEN <<>>
        ELSE [li \in 1..Len(labels) |->
                [key         |-> Key(q.id, li),
                 point_label |-> labels[li],
                 linked      |-> Key(q.id, li)]]

Keys(objs) == {objs[i].key : i \in 1..Len(objs)}

\* Collision.collide / collideAndRenderTextLabels: the objects of one group that
\* are accepted, given the objects of each group that fit without overlap; an
\* object with a link is accepted only if the object it links to fits as well
Accepted(objs, fits, other_fits) ==
    SelectSeq(objs, LAMBDA o : o.key \in fits
                               /\ (o.linked = NoLink \/ o.linked \in other_fits))

\* a feature whose geometry is missing: feature.geometry is undefined, and
\* reading geometry.type in buildLabels raises a TypeError
NoGeometry == [type |-> "undefined", coordinates |-> <<>>]

\* the batch endData starts from the drained queue
NewBatch(t, queue) ==
    [n          |-> ncalls + 1,
     tile       |-> t,
     gen        |-> tiles[t].generation,
     items      |-> queue,
     point_objs |-> Concat([i \in 1..Len(queue) |-> PointObjs(queue[i])]),
     text_objs  |-> Concat([i \in 1..Len(queue) |-> TextObjs(queue[i])]),
     fits       |-> <<>>,
     missing    |-> {},
     textures   |-> <<>>,
     data       |-> TRUE,
     points     |-> "pending",
     text       |-> "pending",
     stage      |-> "resolving",
     quads      |-> <<>>]

\* endData on a canceled tile: return Promise.resolve()
EndDataCanceled(t) ==
    /\ ret' = [n |-> ncalls + 1, tile |-> t, outcome |-> "resolved"]
    /\ UNCHANGED <<queues, batches>>

\* endData past the canceled check: drain the queue, build the point and text
\* objects and start both collision passes
EndDataRun(t) ==
    IF queues[t] = <<>>
    THEN /\ ret' = [n |-> ncalls + 1, tile |-> t, outcome |-> "threw"]
         /\ UNCHANGED <<queues, batches>>
    ELSE IF \E i \in 1..Len(queues[t]) : queues[t][i].geometry.type = NoGeometry.type
    THEN /\ ret' = [n |-> ncalls + 1, tile |-> t, outcome |-> "threw"]
         /\ queues' = [queues EXCEPT ![t] = <<>>]
         /\ UNCHANGED batches
    ELSE /\ ret' = [n |-> ncalls + 1, tile |-> t, outcome |-> "pending"]
         /\ queues' = [queues EXCEPT ![t] = <<>>]
         /\ batches' = Append(batches, NewBatch(t, queues[t]))

EndDataKeepQueue(t) ==
    IF tiles[t].canceled THEN EndDataCanceled(t)
    ELSE IF queues[t] = <<>>
    THEN /\ ret' = [n |-> ncalls + 1, tile |-> t, outcome |-> "threw"]
         /\ UNCHANGED <<queues, batches>>
    ELSE /\ ret' = [n |-> ncalls + 1, tile |-> t, outcome |-> "pending"]
         /\ queues' = queues
         /\ batches' = Append(batches, NewBatch(t, queues[t]))

EndDataNoCancelCheck(t) == EndDataRun(t)

\* endData (tile), up to the point where it returns its promise
EndDataBody(t) == IF tiles[t].canceled THEN EndDataCanceled(t) ELSE EndDataRun(t)

EndData(t) ==
    /\ ncalls < MaxCalls
    /\ ncalls' = ncalls + 1
    /\ EndDataBody(t)
    /\ UNCHANGED <<env, lighting, tile_textures, generation, tiles, tile_data, collision_styles,
                   texture_missing_sprites, nlog, feature_style, quad>>

\* Style.addFeature called from a callback: one quad encoded for the object,
\* with the style object in use
Quad(kind, o, style) == [kind |-> kind, key |-> o.key, style |-> style]

\* the resolver's decision for batch b: which point and text objects fit
\* without overlap; made once, when the first pass resolves
Fits(b) ==
    IF batches[b].fits # <<>> THEN {batches[b].fits}
    ELSE (SUBSET Keys(batches[b].point_objs)) \X (SUBSET Keys(batches[b].text_objs))

\* the points pass resolves and its callback encodes every accepted point
PointsResolved(b) ==
    \E fits \in Fits(b) :
        LET B   == batches[b]
            acc == Accepted(B.point_objs, fits[1], fits[2])
        IN  /\ B.points = "pending"
            /\ feature_style' = IF acc = <<>> THEN feature_style
                                ELSE acc[Len(acc)].style
            /\ batches' = [batches EXCEPT ![b] =
                   [B EXCEPT !.points = "done",
                             !.fits = fits,
                             !.quads = @ \o [i \in 1..Len(acc) |->
                                                Quad("point", acc[i], acc[i].style)]]]
            /\ tile_data' = IF acc = <<>> THEN tile_data
                            ELSE [tile_data EXCEPT ![B.tile] = TRUE]
            /\ UNCHANGED <<env, lighting, tile_textures, generation, tiles, queues, collision_styles,
                           texture_missing_sprites, nlog, ncalls, ret, quad>>

\* collideAndRenderTextLabels resolves with { labels, texts, textures }: the
\* accepted text labels, the text metrics, which lack those of the labels in
\* missing, and ntextures newly rendered textures
TextResolvedWith(b, missing, ntextures) ==
    \E fits \in Fits(b) :
        /\ batches[b].text = "pending"
        /\ batches' = [batches EXCEPT ![b].text = "done", ![b].fits = fits,
                                      ![b].missing = missing,
                                      ![b].textures =
                                          [i \in 1..ntextures |-> <<batches[b].n, i>>]]
        /\ UNCHANGED <<env, lighting, tile_textures, generation, tiles, queues, tile_data, collision_styles,
                       texture_missing_sprites, nlog, feature_style, ncalls,
                       ret, quad>>

\* ... with the metrics of every text
TextResolved(b) == TextResolvedWith(b, {}, 0)

\* ... with the metrics of some texts missing
TextResolvedMissing(b) ==
    \E missing \in (SUBSET Keys(batches[b].text_objs)) \ {{}} :
        TextResolvedWith(b, missing, 0)

\* ... with textures rendered for the texts
TextResolvedTextures(b) ==
    \E ntextures \in 1..MaxTextures : TextResolvedWith(b, {}, ntextures)

\* labels.forEach of the join callback stops at the first label whose
\* text_info is undefined (text_info.size raises a TypeError): the number of
\* labels encoded before it, or all of them
Encoded(labels, missing) ==
    LET bad == {i \in 1..Len(labels) : labels[i].key \in missing}
    IN  IF bad = {} THEN Len(labels)
        ELSE (CHOOSE i \in bad : \A j \in bad : i <= j) - 1

\* the style object the join callback encodes a text label with
JoinStyle(b) == feature_style

\* both passes have resolved: the join callback encodes the accepted text labels
\* and calls Style.endData, which will resolve with the tile data (data) or
\* with nothing
JoinWith(b, data) ==
    LET B      == batches[b]
        labels == Accepted(B.text_objs, B.fits[2], B.fits[1])
        n      == Encoded(labels, B.missing)
    IN  /\ B.stage = "resolving"
        /\ B.points = "done"
        /\ B.text = "done"
        /\ batches' = [batches EXCEPT ![b] =
               [B EXCEPT !.stage = IF n = Len(labels) THEN "joined" ELSE "failed",
                         !.data = data,
                         !.quads = @ \o [i \in 1..n |->
                                            Quad("text", labels[i], JoinStyle(b))]]]
        /\ tile_data' = IF n = Len(labels) THEN [tile_data EXCEPT ![B.tile] = FALSE]
                        ELSE tile_data
        /\ UNCHANGED <<env, lighting, tile_textures, generation, tiles, queues, collision_styles,
                       texture_missing_sprites, nlog, feature_style, ncalls,
                       ret, quad>>

\* ... Style.endData finding the tile's data
Join(b) == JoinWith(b, TRUE)

\* ... Style.endData finding no data for the tile
JoinNoData(b) == JoinWith(b, FALSE)

PushedAsOne(textures, new) == textures \o <<new>>

\* tile_data.textures.push(...textures)
Pushed(textures, new) == textures \o new

\* Style.endData resolves: the mesh-finalization callback attaches the textures
\* of the text pass to the tile data and hands it over, which ends the batch
Finalize(b) ==
    /\ batches[b].stage = "joined"
    /\ batches' = [i \in 1..(Len(batches) - 1) |->
                      IF i < b THEN batches[i] ELSE batches[i + 1]]
    /\ tile_textures' =
           IF batches[b].data /\ Len(batches[b].textures) # 0
           THEN [tile_textures EXCEPT ![batches[b].tile] =
                    Pushed(@, batches[b].textures)]
           ELSE tile_textures
    /\ UNCHANGED <<env, lighting, generation, tiles, queues, tile_data, collision_styles,
                   texture_missing_sprites, nlog, feature_style, ncalls, ret, quad>>

\* ------------------------------------------------------- tile lifecycle
\* the tile is canceled (tile.canceled = true)
Cancel(t) ==
    /\ ~tiles[t].canceled
    /\ tiles' = [tiles EXCEPT ![t].canceled = TRUE]
    /\ UNCHANGED <<env, lighting, tile_textures, generation, queues, tile_data, collision_styles,
                   texture_missing_sprites, nlog, feature_style, batches,
                   ncalls, ret, quad>>

\* the style moves to a new generation
NewGeneration ==
    /\ generation < MaxGeneration
    /\ generation' = generation + 1
    /\ UNCHANGED <<env, lighting, tile_textures, tiles, queues, tile_data, collision_styles,
                   texture_missing_sprites, nlog, feature_style, batches,
                   ncalls, ret, quad>>

\* the tile's feature set is rebuilt: a fresh build in the current generation
Rebuild(t) ==
    /\ tiles[t] # [generation |-> generation, canceled |-> FALSE]
    /\ tiles' = [tiles EXCEPT ![t] = [generation |-> generation, canceled |-> FALSE]]
    /\ UNCHANGED <<env, lighting, tile_textures, generation, queues, tile_data, collision_styles,
                   texture_missing_sprites, nlog, feature_style, batches,
                   ncalls, ret, quad>>

\* reset ()
Reset ==
    /\ queues' = [t \in Tiles |-> <<>>]
    /\ texture_missing_sprites' = {}
    /\ UNCHANGED <<env, lighting, tile_textures, generation, tiles, tile_data, collision_styles, nlog,
                   feature_style, batches, ncalls, ret, quad>>

\* ------------------------------------------------------- quad builders
\* buildQuad(...): the options handed to buildQuadsForPoints
buildQuad(size, angle, angles, pre_angles, offset, offsets, texcoord_scale, curve) ==
    [quad           |-> size,
     angle          |-> angle * 4096,
     angles         |-> angles,
     pre_angles     |-> pre_angles,
     offset         |-> offset,
     offsets        |-> offsets,
     texcoord_scale |-> texcoord_scale,
     curve          |-> curve]

\* one more buildQuad call: the call is recorded and its return value (the
\* number of geometries buildQuadsForPoints reports) is added to geom_count
Emit(acc, label, call) ==
    [calls      |-> Append(acc.calls, call),
     geom_count |-> acc.geom_count + label.geoms[Len(acc.calls) + 1]]

\* pass for stroke: for (let i = 0; i < label.num_segments; i++)
RECURSIVE StrokePass(_, _, _, _)
StrokePass(label, style, i, acc) ==
    IF i < label.num_segments
    THEN StrokePass(label, style, i + 1,
             Emit(acc, label,
                  buildQuad(style.size[i + 1], label.angle, label.angles[i + 1],
                            label.pre_angles[i + 1], label.offset,
                            label.offsets[i + 1], style.texcoords_stroke[i + 1], TRUE)))
    ELSE acc

\* pass for fill: for (let i = 0; i < label.num_segments; i++)
RECURSIVE FillPass(_, _, _, _)
FillPass(label, style, i, acc) ==
    IF i < label.num_segments
    THEN FillPass(label, style, i + 1,
             Emit(acc, label,
                  buildQuad(style.size[i + 1], label.angle, label.angles[i + 1],
                            label.pre_angles[i + 1], label.offset,
                            label.offsets[i + 1], style.texcoords[i + 1], TRUE)))
    ELSE acc

FillThenStroke(label, style) ==
    StrokePass(label, style, 0,
               FillPass(label, style, 0, [calls |-> <<>>, geom_count |-> 0]))

\* buildArticulatedLabel (label, style, mesh, context): the stroke pass, then
\* the fill pass; returns geom_count
buildArticulatedLabel(label, style) ==
    FillPass(label, style, 0,
             StrokePass(label, style, 0, [calls |-> <<>>, geom_count |-> 0]))

\* units of angle per radian
AngleUnit == 16384

\* the a_shape attribute is a 16-bit signed integer (gl.SHORT): the value
\* angle * 4096 is stored without its fraction and wraps beyond 16 bits
StoredShort(v) ==
    LET n == IF v >= 0 THEN v \div AngleUnit ELSE -((-v) \div AngleUnit)
    IN  ((n + 32768) % 65536) - 32768

\* the angle read back from the attribute: the stored value divided by 4096
DecodedAngle(n) == n * (AngleUnit \div 4096)

\* a value JavaScript treats as false in `a || b`: undefined (<<>>) or 0
Falsy(x) == x = <<>> \/ x[1] = 0

\* buildLabel (label, style, mesh, context): one buildQuad call
buildLabel(label, style) ==
    LET angle == IF Falsy(label.angle) THEN style.angle ELSE label.angle[1]
        size  == IF label.type # "none" THEN style.size[label.type] ELSE style.size
        texcoords == IF label.type # "none" THEN style.texcoords[label.type]
                     ELSE style.texcoords
    IN  Emit([calls |-> <<>>, geom_count |-> 0], label,
             buildQuad(size, angle, <<>>, <<>>, label.offset, <<>>, texcoords, FALSE))

\* build (style, mesh, context)
build(label, style) ==
    IF label.type = "curved" THEN buildArticulatedLabel(label, style)
    ELSE buildLabel(label, style)

Build ==
    /\ quad.pc = "ready"
    /\ quad' = [quad EXCEPT !.pc = "done", !.out = build(quad.label, quad.style)]
    /\ UNCHANGED <<env, lighting, tile_textures, generation, tiles, queues, tile_data, collision_styles,
                   texture_missing_sprites, nlog, feature_style, batches,
                   ncalls, ret>>

\* the join callback's styling of this.feature_style for an accepted text label
\* (style.size = text_info.size.logical_size, style.angle = 0, ...)
JoinTextStyle(style, text_info) ==
    [style EXCEPT !.size = text_info.logical_size,
                  !.angle = 0,
                  !.texcoords = <<"text", text_info.logical_size>>]

\* build (style, mesh, context) on a curved label
BuildCurved ==
    /\ quad.pc = "ready"
    /\ quad' = [quad EXCEPT
                   !.pc = "done",
                   !.out = buildArticulatedLabel(quad.label, quad.style)]
    /\ UNCHANGED <<env, lighting, tile_textures, generation, tiles, queues, tile_data, collision_styles,
                   texture_missing_sprites, nlog, feature_style, batches,
                   ncalls, ret>>

\* --------------------------------------------------------- Light.inject
\* the lights of a scene, by name, with the type of each
LightNames == {"sun", "moon"}
LightType(name) == "directional"

\* ShaderProgram.blocks before anything is injected
NoBlocks == [lighting |-> <<>>, setup |-> <<>>]

\* ShaderProgram.removeBlock(key)
removeBlock(b, key) == [b EXCEPT ![key] = <<>>]

\* ShaderProgram.addBlock(key, ...sources)
addBlock(b, key, sources) == [b EXCEPT ![key] = @ \o sources]

\* the types of the lights, each once
RECURSIVE Types(_)
Types(lights) ==
    IF lights = <<>> THEN <<>>
    ELSE LET rest == Types(SubSeq(lights, 1, Len(lights) - 1))
             type == LightType(lights[Len(lights)])
         IN  IF \E i \in DOMAIN rest : rest[i] = type THEN rest ELSE Append(rest, type)

\* Light.types[type].inject(): the struct and calculate function of a type
TypeSource(type) == [kind |-> "type", name |-> type]

\* light.inject(): the instance definition and the 'setup' assignment
InstanceSource(name) == [kind |-> "instance", name |-> name]
AssignSource(name) == [kind |-> "assign", name |-> name]

\* the calculateLighting function, which calls calculateLight once per light
CalculateSource(lights) == [kind |-> "calculate", name |-> lights]

injectInstance(b, name) ==
    addBlock(addBlock(b, "lighting", <<InstanceSource(name)>>),
             "setup", <<AssignSource(name)>>)

RECURSIVE injectInstances(_, _)
injectInstances(b, lights) ==
    IF lights = <<>> THEN b
    ELSE injectInstance(injectInstances(b, SubSeq(lights, 1, Len(lights) - 1)),
                        lights[Len(lights)])

\* Light.inject(lights) on the blocks b
inject(b, lights) ==
    LET cleared == removeBlock(b, "lighting")
        types   == addBlock(cleared, "lighting",
                            [i \in DOMAIN Types(lights) |-> TypeSource(Types(lights)[i])])
    IN  IF ~enabled THEN cleared
        ELSE addBlock(injectInstances(types, lights), "lighting",
                      <<CalculateSource(lights)>>)

Inject(lights) ==
    /\ ncalls < MaxCalls
    /\ ncalls' = ncalls + 1
    /\ blocks' = inject(blocks, lights)
    /\ last_inject' = [n |-> ncalls + 1, lights |-> lights, enabled |-> enabled]
    /\ UNCHANGED <<env, enabled, generation, tiles, queues, tile_data,
                   collision_styles, texture_missing_sprites, nlog, feature_style,
                   batches, ret, quad, tile_textures>>

\* Light.enabled is switched
SetEnabled(on) ==
    /\ enabled # on
    /\ enabled' = on
    /\ UNCHANGED <<env, blocks, last_inject, generation, tiles, queues, tile_data,
                   collision_styles, texture_missing_sprites, nlog, feature_style,
                   batches, ncalls, ret, quad, tile_textures>>

\* ------------------------------------------------- the tile batch pipeline
Point(c) == [type |-> "Point", coordinates |-> c]
MultiPoint(c) == [type |-> "MultiPoint", coordinates |-> c]

BaseDraw ==
    [color |-> TRUE, texture |-> "undef", sprite |-> "undef",
     sprite_default |-> "undef", size |-> <<>>, outline |-> <<>>,
     placement |-> "VERTEX", placement_spacing |-> 0, text |-> "none",
     angle |-> 0, priority |-> <<>>, text_priority |-> <<>>]

TextModes == {"none", "optional", "required"}

InitCommon ==
    /\ generation = 0
    /\ tiles = [t \in Tiles |-> [generation |-> 0, canceled |-> FALSE]]
    /\ queues = [t \in Tiles |-> <<>>]
    /\ tile_data = [t \in Tiles |-> FALSE]
    /\ collision_styles = {}
    /\ texture_missing_sprites = {}
    /\ nlog = [p \in {"atlas"} \X (SpriteNames \ {"undef"}) |-> 0]
    /\ feature_style = 0
    /\ batches = <<>>
    /\ tile_textures = [t \in Tiles |-> <<>>]
    /\ ncalls = 0
    /\ ret = [n |-> 0, tile |-> 0, outcome |-> "none"]
    /\ enabled = TRUE
    /\ blocks = NoBlocks
    /\ last_inject = [n |-> 0, lights |-> <<>>, enabled |-> TRUE]

NoQuad == [pc |-> "idle"]

Init ==
    /\ env = [texture |-> "undef", outline_width |-> 0, draw |-> BaseDraw]
    /\ quad = NoQuad
    /\ InitCommon

\* the callbacks of the batches in flight
Callbacks ==
    \/ \E b \in DOMAIN batches : PointsResolved(b)
    \/ \E b \in DOMAIN batches : TextResolved(b)
    \/ \E b \in DOMAIN batches : Join(b)
    \/ \E b \in DOMAIN batches : Finalize(b)

\* One tile with its whole life cycle: features with and without text, builds,
\* cancellation, new generations, rebuilds and resets.
PipelineTiles == {1}
PipelineDraws == {[BaseDraw EXCEPT !.text = m] : m \in TextModes}

Next ==
    \/ \E t \in PipelineTiles, d \in PipelineDraws : AddFeature(t, Point(1), d)
    \/ \E t \in PipelineTiles : EndData(t)
    \/ Callbacks
    \/ \E t \in PipelineTiles : Cancel(t)
    \/ \E t \in PipelineTiles : Rebuild(t)
    \/ NewGeneration
    \/ Reset

Spec == Init /\ [][Next]_vars

\* One tile that is canceled and rebuilt while features are added and built.
NextCancel ==
    \/ \E d \in PipelineDraws : AddFeature(1, Point(1), d)
    \/ EndData(1)
    \/ Callbacks
    \/ Cancel(1)
    \/ Rebuild(1)

SpecCancel == Init /\ [][NextCancel]_vars

\* Two tiles built side by side, every feature with a text label.
TilesDraws == {[BaseDraw EXCEPT !.text = m] : m \in {"optional", "required"}}

NextTiles ==
    \/ \E t \in Tiles, d \in TilesDraws : AddFeature(t, Point(1), d)
    \/ \E t \in Tiles : EndData(t)
    \/ Callbacks

SpecTiles == Init /\ [][NextTiles]_vars

\* The objects endData builds, for features with one and with several labels.
LinksFeatures == <<Point(1), MultiPoint(<<1, 2>>), MultiPoint(<<>>)>>

NextLinks ==
    \/ \E f \in DOMAIN LinksFeatures, d \in PipelineDraws :
           AddFeature(1, LinksFeatures[f], d)
    \/ EndData(1)

SpecLinks == Init /\ [][NextLinks]_vars

\* addFeature called again and again with one draw, over every draw of AddDraws.
AddSizes == {<<>>, <<10>>, <<300>>, <<10, 10>>, <<500, 10>>, <<250, 256>>}
AddOutlines ==
    {<<>>} \cup {<<[width |-> w, color |-> c]>> : w \in {0, 10}, c \in BOOLEAN}

AddDraws ==
    {[BaseDraw EXCEPT !.color = c, !.texture = x, !.sprite = sp,
                      !.sprite_default = sd, !.size = sz, !.outline = o] :
        c \in BOOLEAN, x \in {"undef", "plain", "atlas"}, sp \in SpriteNames,
        sd \in {"undef", "a", "lost"}, sz \in AddSizes, o \in AddOutlines}

InitAdd ==
    /\ env \in [texture : {"undef", "atlas"}, outline_width : {0, 1}, draw : AddDraws]
    /\ quad = NoQuad
    /\ InitCommon

NextAdd == AddFeature(1, Point(1), env.draw)

SpecAdd == InitAdd /\ [][NextAdd]_vars

\* build on every curved label of up to MaxSegments segments.
Segments ==
    {[size |-> <<8, 12>>, angle |-> 1, pre_angle |-> 2, offset |-> 3],
     [size |-> <<9, 12>>, angle |-> 4, pre_angle |-> 5, offset |-> 6]}

CurvedLabel(segs, geoms) ==
    [type         |-> "curved",
     num_segments |-> Len(segs),
     angle        |-> 7,
     offset       |-> <<0, 0>>,
     angles       |-> [i \in 1..Len(segs) |-> segs[i].angle],
     pre_angles   |-> [i \in 1..Len(segs) |-> segs[i].pre_angle],
     offsets      |-> [i \in 1..Len(segs) |-> segs[i].offset],
     geoms        |-> geoms]

CurvedStyle(segs) ==
    [size             |-> [i \in 1..Len(segs) |-> segs[i].size],
     texcoords_stroke |-> [i \in 1..Len(segs) |-> <<"stroke", i>>],
     texcoords        |-> [i \in 1..Len(segs) |-> <<"fill", i>>]]

InitQuad ==
    /\ env = [texture |-> "undef", outline_width |-> 0, draw |-> BaseDraw]
    /\ \E n \in 0..MaxSegments :
           \E segs \in [1..n -> Segments], geoms \in [1..(2 * n) -> {1, 2}] :
               quad = [pc |-> "ready", label |-> CurvedLabel(segs, geoms),
                       style |-> CurvedStyle(segs),
                       out |-> [calls |-> <<>>, geom_count |-> 0]]
    /\ InitCommon

NextQuad == BuildCurved

SpecQuad == InitQuad /\ [][NextQuad]_vars

\* build on every kind of label the style encodes: the label of a queued point
\* feature, a text label attached to a point as the join callback styles it,
\* and a curved label.
EncodeSizes == {<<>>, <<10, 10>>, <<500, 10>>}
\* angles are counted in units of 1 / AngleUnit radians, a quarter of the step
\* of the encoded angle: 25736 is pi / 2, 102944 is 2 pi
EncodeAngles == {0, 5, 102944}
LabelAngles == {<<>>, <<0>>, <<3>>, <<25736>>, <<-12868>>}

\* text_info.size.logical_size of the rendered texts
TextSizes == {<<40, 12>>, <<300, 20>>}

EncodeDraws ==
    {[BaseDraw EXCEPT !.size = sz, !.angle = a] : sz \in EncodeSizes, a \in EncodeAngles}

StraightLabel(angle) ==
    [type |-> "none", position |-> 1, angle |-> angle, offset |-> <<0, 0>>,
     geoms |-> <<1>>]

ReadyQuad(kind, label, style) ==
    [pc |-> "ready", kind |-> kind, label |-> label, style |-> style,
     out |-> [calls |-> <<>>, geom_count |-> 0]]

InitEncode ==
    /\ env = [texture |-> "undef", outline_width |-> 0, draw |-> BaseDraw]
    /\ \/ \E d \in EncodeDraws, a \in LabelAngles :
              quad = ReadyQuad("point", StraightLabel(a), FeatureStyle(d))
       \/ \E d \in EncodeDraws, a \in LabelAngles, sz \in TextSizes :
              quad = ReadyQuad("text", StraightLabel(a),
                               JoinTextStyle(FeatureStyle(d), [logical_size |-> sz]))
       \/ \E n \in 0..MaxSegments :
              \E segs \in [1..n -> Segments], geoms \in [1..(2 * n) -> {1, 2}] :
                  quad = ReadyQuad("curved", CurvedLabel(segs, geoms), CurvedStyle(segs))
    /\ InitCommon

NextEncode == Build

SpecEncode == InitEncode /\ [][NextEncode]_vars

\* addFeature called again and again with one draw that names sprites, with
\* resets of the style in between.
SpriteDraws ==
    {[BaseDraw EXCEPT !.texture = x, !.sprite = sp, !.sprite_default = sd] :
        x \in {"undef", "plain", "atlas"}, sp \in SpriteNames,
        sd \in {"undef", "a", "lost"}}

InitSprites ==
    /\ env \in [texture : {"undef", "atlas"}, outline_width : {0}, draw : SpriteDraws]
    /\ quad = NoQuad
    /\ InitCommon

NextSprites ==
    \/ AddFeature(1, Point(1), env.draw)
    \/ Reset

SpecSprites == InitSprites /\ [][NextSprites]_vars

\* addFeature with one draw while the style moves to new generations and the
\* tile is rebuilt.
NextStale ==
    \/ AddFeature(1, Point(1), env.draw)
    \/ NewGeneration
    \/ Rebuild(1)

SpecStale == InitSprites /\ [][NextStale]_vars

\* One tile whose features can fail while the batch is processed: a feature
\* without a geometry, text labels whose metrics are missing.
FailFeatures == <<Point(1), NoGeometry>>

NextFail ==
    \/ \E f \in DOMAIN FailFeatures, d \in TilesDraws : AddFeature(1, FailFeatures[f], d)
    \/ EndData(1)
    \/ Callbacks
    \/ \E b \in DOMAIN batches : TextResolvedMissing(b)

SpecFail == Init /\ [][NextFail]_vars

\* A tile with one feature, over every kind of geometry and every placement:
\* the feature is queued and endData builds its labels.
LineString(c) == [type |-> "LineString", coordinates |-> c]
MultiLineString(c) == [type |-> "MultiLineString", coordinates |-> c]
Polygon(c) == [type |-> "Polygon", coordinates |-> c]
MultiPolygon(c) == [type |-> "MultiPolygon", coordinates |-> c]
OtherGeometry(c) == [type |-> "GeometryCollection", coordinates |-> c]

Outer == <<1, 5, 9, 1>>
Hole == <<2, 3, 4, 2>>

LabelFeatures ==
    <<Point(1), MultiPoint(<<>>), MultiPoint(<<1, 2>>), MultiPoint(<<3, 1, 2>>),
      LineString(<<1, 3>>), MultiLineString(<<<<1, 3>>, <<5, 6, 8>>>>),
      Polygon(<<Outer>>), Polygon(<<Outer, Hole>>), Polygon(<<Outer, Hole, Hole>>),
      MultiPolygon(<<>>), MultiPolygon(<<(<<Outer>>)>>),
      MultiPolygon(<<(<<Outer, Hole>>), (<<Outer>>)>>),
      OtherGeometry(<<>>), OtherGeometry(<<1, 2>>)>>

LabelDraws ==
    {[BaseDraw EXCEPT !.placement = pl, !.placement_spacing = 2, !.text = m] :
        pl \in PLACEMENT, m \in {"none", "required"}}

InitLabels ==
    /\ env \in [texture : {"undef"}, outline_width : {0}, draw : LabelDraws]
    /\ quad = NoQuad
    /\ InitCommon

NextLabels ==
    \/ \E f \in DOMAIN LabelFeatures :
           queues[1] = <<>> /\ batches = <<>> /\ AddFeature(1, LabelFeatures[f], env.draw)
    \/ EndData(1)

SpecLabels == InitLabels /\ [][NextLabels]_vars

\* addFeature called again and again with one draw, over point and text
\* priorities that are unset, zero, negative and positive.
Priorities == {<<>>, <<-1>>, <<0>>, <<1>>, <<3>>}

PriorityDraws ==
    {[BaseDraw EXCEPT !.priority = p, !.text_priority = tp, !.text = m] :
        p \in Priorities, tp \in Priorities, m \in TextModes}

InitPriority ==
    /\ env \in [texture : {"undef"}, outline_width : {0}, draw : PriorityDraws]
    /\ quad = NoQuad
    /\ InitCommon

NextPriority == AddFeature(1, Point(1), env.draw)

SpecPriority == InitPriority /\ [][NextPriority]_vars

\* Two tiles that receive features with and without text from one draw that
\* queues, has neither colour nor texture, or names a sprite that resolves or
\* not, while the style moves to new generations and the tiles are rebuilt.
RegisterDraws ==
    {[BaseDraw EXCEPT !.color = c, !.texture = x, !.sprite = sp] :
        c \in BOOLEAN, x \in {"undef", "atlas"}, sp \in {"a", "gone"}}

InitRegister ==
    /\ env \in [texture : {"undef", "atlas"}, outline_width : {0}, draw : RegisterDraws]
    /\ quad = NoQuad
    /\ InitCommon

NextRegister ==
    \/ \E t \in Tiles, m \in {"none", "required"} :
           AddFeature(t, Point(1), [env.draw EXCEPT !.text = m])
    \/ NewGeneration
    \/ \E t \in Tiles : Rebuild(t)

SpecRegister == InitRegister /\ [][NextRegister]_vars

\* Light.inject called again and again with the lights of a scene, in either
\* order, with some or none of them, lighting switched on and off in between.
LightSets == {<<>>, <<"sun">>, <<"moon">>, <<"sun", "moon">>, <<"moon", "sun">>}

NextLight ==
    \/ \E lights \in LightSets : Inject(lights)
    \/ \E on \in BOOLEAN : SetEnabled(on)

SpecLight == Init /\ [][NextLight]_vars

\* One tile whose features carry text labels, the text pass rendering new
\* textures and mesh finalization at times returning no tile data.
NextTextures ==
    \/ \E d \in TilesDraws : AddFeature(1, Point(1), d)
    \/ EndData(1)
    \/ Callbacks
    \/ \E b \in DOMAIN batches : TextResolvedTextures(b)
    \/ \E b \in DOMAIN batches : JoinNoData(b)

SpecTextures == Init /\ [][NextTextures]_vars

\* ------------------------------------------------------------ properties
\* the batch of the next state that continues batch B
Continues(b2, B) == b2 \in DOMAIN batches' /\ batches'[b2].n = B.n

ItemIds(items) == {items[i].id : i \in 1..Len(items)}

QuadKeys(B, kind) == {B.quads[i].key : i \in {j \in 1..Len(B.quads) : B.quads[j].kind = kind}}

\* C1: once the tile of a batch is canceled before the join, no callback of that
\* batch encodes a quad and the join does not hand the result to mesh
\* finalization.
C1_CanceledBeforeJoinDiscarded ==
    [][\A b \in DOMAIN batches :
          (tiles[batches[b].tile].canceled /\ batches[b].stage = "resolving")
          => \A b2 \in DOMAIN batches' :
                 Continues(b2, batches[b])
                 => /\ batches'[b2].quads = batches[b].quads
                    /\ batches'[b2].stage = "resolving"]_vars

\* C2: a callback of a batch that runs when the tile's generation differs from
\* the generation at batch start encodes nothing and commits nothing.
C2_StaleGenerationDiscarded ==
    [][\A b \in DOMAIN batches :
          tiles[batches[b].tile].generation # batches[b].gen
          => \E b2 \in DOMAIN batches' :
                 /\ Continues(b2, batches[b])
                 /\ batches'[b2].quads = batches[b].quads
                 /\ batches'[b2].stage = batches[b].stage]_vars

\* C3: a step that encodes a quad of a batch is taken only when both collision
\* passes of the batch had completed before it.
C3_EncodeOnlyAfterBothPasses ==
    [][\A b \in DOMAIN batches : \A b2 \in DOMAIN batches' :
          (Continues(b2, batches[b]) /\ batches'[b2].quads # batches[b].quads)
          => batches[b].points = "done" /\ batches[b].text = "done"]_vars

\* C4: endData on a canceled tile resolves at once and does no work: no batch is
\* started (no labels built, no collision pass), nothing is encoded, the queue
\* and the tile data are untouched.
C4_CanceledEndDataNoWork ==
    [][\A t \in Tiles :
          (ret'.n # ret.n /\ ret'.tile = t /\ tiles[t].canceled)
          => /\ ret'.outcome = "resolved"
             /\ UNCHANGED <<queues, batches, tile_data, collision_styles,
                            feature_style>>]_vars

C4_Witness ==
    /\ ret.outcome = "resolved"
    /\ queues[ret.tile] # <<>>
    /\ tiles[ret.tile].canceled

\* C5: a non-canceled endData takes the whole queue of the tile and removes it
\* in the same step; the items of a batch in flight never change; no item is at
\* once queued and in a batch, or in two batches; a batch encodes only quads of
\* its own items.
C5_EachItemInOnePlace ==
    /\ \A b1, b2 \in DOMAIN batches :
           b1 # b2 => ItemIds(batches[b1].items) \cap ItemIds(batches[b2].items) = {}
    /\ \A b \in DOMAIN batches, t \in Tiles :
           ItemIds(batches[b].items) \cap ItemIds(queues[t]) = {}
    /\ \A b \in DOMAIN batches :
           {k[1] : k \in QuadKeys(batches[b], "point") \cup QuadKeys(batches[b], "text")}
               \subseteq ItemIds(batches[b].items)

C5_DrainStep ==
    /\ \A t \in Tiles :
          (ret'.n # ret.n /\ ret'.tile = t /\ ~tiles[t].canceled /\ queues[t] # <<>>)
          => /\ queues'[t] = <<>>
             /\ Len(batches') = Len(batches) + 1
             /\ ItemIds(batches'[Len(batches')].items) = ItemIds(queues[t])
             /\ Len(batches'[Len(batches')].items) = Len(queues[t])
             /\ batches'[Len(batches')].tile = t
    /\ \A b \in DOMAIN batches : \A b2 \in DOMAIN batches' :
          Continues(b2, batches[b])
          => ItemIds(batches'[b2].items) = ItemIds(batches[b].items)

C5_QueueDrainedAtomically == [](C5_EachItemInOnePlace) /\ [][C5_DrainStep]_vars

C5_Witness ==
    \E b \in DOMAIN batches :
        /\ batches[b].stage = "resolving"
        /\ batches[b].points = "done"
        /\ batches[b].quads # <<>>
        /\ queues[batches[b].tile] # <<>>

\* C6: every quad of a batch is encoded with the style object of one of the
\* batch's own items, however the callbacks of different tiles interleave.
C6_OwnStyleOnly ==
    \A b \in DOMAIN batches :
        \A i \in 1..Len(batches[b].quads) :
            batches[b].quads[i].style \in ItemIds(batches[b].items)

\* C7: for every label of every item of a batch: with a text feature there is
\* exactly one text object for the label, linked to the label's point object and
\* carrying its label, and the point object links back exactly when the text is
\* not optional; without a text feature the point object has no link and there
\* is no text object.
C7_LinkModes ==
    \A b \in DOMAIN batches :
        LET B == batches[b] IN
        \A i \in 1..Len(B.items) :
            LET q == B.items[i]
                n == Len(buildLabels(q.style.size, q.geometry, q.style))
            IN  /\ Cardinality({j \in 1..Len(B.point_objs) :
                                    B.point_objs[j].style = q.id}) = n
                /\ \A li \in 1..n :
                    LET k  == Key(q.id, li)
                        ps == {j \in 1..Len(B.point_objs) : B.point_objs[j].key = k}
                        ts == {j \in 1..Len(B.text_objs) : B.text_objs[j].key = k}
                    IN  /\ Cardinality(ps) = 1
                        /\ Cardinality(ts) = IF q.text = "none" THEN 0 ELSE 1
                        /\ \A j \in ps :
                               B.point_objs[j].linked =
                                   IF q.text = "required" THEN k ELSE NoLink
                        /\ \A j \in ts : \A pj \in ps :
                               /\ B.text_objs[j].linked = B.point_objs[pj].key
                               /\ B.text_objs[j].point_label = B.point_objs[pj].label

C7_Witness ==
    \E b \in DOMAIN batches :
        /\ \E i \in 1..Len(batches[b].items) :
               /\ batches[b].items[i].text = "optional"
               /\ batches[b].items[i].geometry.type = "MultiPoint"
        /\ \E i \in 1..Len(batches[b].items) : batches[b].items[i].text = "required"
        /\ Len(batches[b].text_objs) >= 3

\* C8: once both callbacks of a batch have encoded: a point with a required
\* text is encoded only if its text is; a point with an optional text is
\* encoded exactly when the point itself fits; a text is encoded only if its
\* point is.
C8_LinkedPairLaw ==
    \A b \in DOMAIN batches :
        LET B == batches[b] IN
        B.stage = "joined" =>
            \A i \in 1..Len(B.items) :
                LET q == B.items[i]
                    k == Key(q.id, 1)
                    p == k \in QuadKeys(B, "point")
                    t == k \in QuadKeys(B, "text")
                IN  q.text # "none" =>
                        /\ (q.text = "required" /\ ~t) => ~p
                        /\ q.text = "optional" => (p <=> k \in B.fits[1])
                        /\ t => p

C8_Witness ==
    \E b \in DOMAIN batches :
        LET B == batches[b] IN
        /\ B.stage = "joined"
        /\ \E i \in 1..Len(B.items) :
               /\ B.items[i].text = "required"
               /\ Key(B.items[i].id, 1) \in B.fits[1]
               /\ Key(B.items[i].id, 1) \notin QuadKeys(B, "point")
        /\ \E i \in 1..Len(B.items) :
               /\ B.items[i].text = "optional"
               /\ Key(B.items[i].id, 1) \in QuadKeys(B, "point")
               /\ Key(B.items[i].id, 1) \notin QuadKeys(B, "text")

\* C9: buildArticulatedLabel on a label of n segments makes 2n buildQuad calls:
\* calls 1..n are the stroke quads of segments 0..n-1, calls n+1..2n the fill
\* quads of segments 0..n-1; call i of each pass carries that segment's angles,
\* pre_angles and offsets; the result is the sum of the 2n return values.
C9_StrokeThenFill ==
    quad.pc = "done" =>
        LET n     == quad.label.num_segments
            calls == quad.out.calls
        IN  /\ Len(calls) = 2 * n
            /\ \A i \in 1..n :
                   /\ calls[i].texcoord_scale = <<"stroke", i>>
                   /\ calls[n + i].texcoord_scale = <<"fill", i>>
                   /\ \A k \in {i, n + i} :
                          /\ calls[k].angles = quad.label.angles[i]
                          /\ calls[k].pre_angles = quad.label.pre_angles[i]
                          /\ calls[k].offsets = quad.label.offsets[i]
                          /\ calls[k].curve
            /\ quad.out.geom_count = SumSeq(quad.label.geoms)

C9_Witness ==
    /\ quad.pc = "done"
    /\ quad.label.num_segments = 3
    /\ quad.label.angles[1] # quad.label.angles[3]
    /\ Len(quad.out.calls) = 6

\* C10: each dimension of a queued style size is min(v, 256), v being the
\* requested dimension (explicit size with a scalar expanded, else the size of
\* the resolved sprite, else 16) plus the outline width when an outline width
\* and colour are present; [500, 10] becomes [256, 10], [10, 10] is unchanged.
C10_Requested(d) ==
    LET draw == env.draw
        tex  == IF draw.texture # "undef" THEN draw.texture ELSE env.texture
        spr  == IF draw.sprite \in AtlasSprites THEN draw.sprite
                ELSE draw.sprite_default
    IN  IF draw.size # <<>>
        THEN (IF Len(draw.size) = 1 THEN draw.size[1] ELSE draw.size[d])
        ELSE IF tex = "atlas"
        THEN (IF spr = "big" THEN (IF d = 1 THEN 300 ELSE 20) ELSE 32)
        ELSE 16

C10_Outline ==
    LET o == env.draw.outline
        w == IF o = <<>> THEN 0
             ELSE IF o[1].width # 0 THEN o[1].width ELSE env.outline_width
    IN  IF o # <<>> /\ o[1].color THEN w ELSE 0

C11_EncodedSizeAtMost256 ==
    quad.pc = "done" =>
        \A i \in 1..Len(quad.out.calls) :
            /\ quad.out.calls[i].quad[1] <= 256
            /\ quad.out.calls[i].quad[2] <= 256

\* C12: an addFeature call whose style texture has sprites while neither the
\* sprite nor the sprite_default of the draw resolves queues nothing and
\* registers no collision group; the missing-sprite message is logged at most
\* once per (texture, sprite) pair.
C12_Unresolved ==
    LET tex == IF env.draw.texture # "undef" THEN env.draw.texture ELSE env.texture
    IN  /\ tex = "atlas"
        /\ env.draw.sprite \notin AtlasSprites
        /\ env.draw.sprite_default \notin AtlasSprites

C12_SkipStep ==
    (ncalls' = ncalls + 1 /\ ret' = ret /\ C12_Unresolved)
    => UNCHANGED <<queues, tile_data, collision_styles, batches>>

C12_LoggedAtMostOnce == \A p \in DOMAIN nlog : nlog[p] <= 1

C13_StaleAddFeatureNoEffect ==
    [][(ncalls' = ncalls + 1 /\ ret' = ret /\ tiles[1].generation # generation)
       => UNCHANGED <<queues, tile_data, collision_styles,
                      texture_missing_sprites, nlog>>]_vars

C13_Witness ==
    /\ tiles[1].generation # generation
    /\ ncalls >= 1
    /\ queues[1] = <<>>
    /\ texture_missing_sprites = {}
    /\ env.draw.texture = "atlas"
    /\ env.draw.sprite = "gone"
    /\ env.draw.sprite_default = "a"

\* C14: endData on a tile that is not canceled and has nothing queued completes
\* without raising an error and does nothing: no batch is started and nothing
\* is encoded.
C14_EmptyEndDataNoOp ==
    [][\A t \in Tiles :
          (ret'.n # ret.n /\ ret'.tile = t /\ ~tiles[t].canceled /\ queues[t] = <<>>)
          => /\ ret'.outcome # "threw"
             /\ UNCHANGED <<queues, batches, feature_style>>]_vars

\* C15: a failure on one feature of a batch does not abort the batch: endData
\* on a queue with an unreadable feature still starts the batch, and a join
\* that meets a text label without metrics still encodes every other accepted
\* text label and hands the tile to mesh finalization.
C15_JoinCompletes ==
    \A b \in DOMAIN batches :
        LET B      == batches[b]
            labels == Accepted(B.text_objs, B.fits[2], B.fits[1])
        IN  B.stage # "resolving" =>
                /\ B.stage = "joined"
                /\ \A i \in 1..Len(labels) :
                       labels[i].key \notin B.missing
                       => labels[i].key \in QuadKeys(B, "text")

C15_BatchStarts ==
    \A t \in Tiles :
        (ret'.n # ret.n /\ ret'.tile = t /\ ~tiles[t].canceled /\ queues[t] # <<>>)
        => ret'.outcome # "threw" /\ Len(batches') = Len(batches) + 1

C15_FailureDoesNotAbortBatch == [](C15_JoinCompletes) /\ [][C15_BatchStarts]_vars

\* the labels endData built for the one feature of batch B
BuiltPositions(B) == [i \in 1..Len(B.point_objs) |-> B.point_objs[i].label.position]

Vertices(rings) == Concat([ln \in 1..Len(rings) |-> rings[ln]])

\* C16: a Polygon or MultiPolygon with placement CENTROID gives exactly one
\* label, whatever its rings and member polygons; a Point gives one label at
\* its coordinate; a MultiPoint gives one label per coordinate, in order.
C16_OneLabelPerCentroidOrPoint ==
    \A b \in DOMAIN batches :
        LET B == batches[b]
            g == B.items[1].geometry
        IN  /\ (g.type \in {"Polygon", "MultiPolygon"}
                    /\ B.items[1].style.placement = "CENTROID")
                => Len(B.point_objs) = 1
            /\ g.type = "Point" => BuiltPositions(B) = <<g.coordinates>>
            /\ g.type = "MultiPoint" => BuiltPositions(B) = g.coordinates

C16_Witness ==
    \E b \in DOMAIN batches :
        /\ batches[b].items[1].geometry.type = "MultiPolygon"
        /\ Len(batches[b].items[1].geometry.coordinates) = 2
        /\ batches[b].items[1].style.placement = "CENTROID"
        /\ Len(batches[b].point_objs) = 1

\* C17: a Polygon or MultiPolygon with any placement other than CENTROID gives
\* one label per vertex of every ring of every member polygon.
C17_OneLabelPerRingVertex ==
    \A b \in DOMAIN batches :
        LET B == batches[b]
            g == B.items[1].geometry
        IN  B.items[1].style.placement # "CENTROID" =>
                /\ g.type = "Polygon" => BuiltPositions(B) = Vertices(g.coordinates)
                /\ g.type = "MultiPolygon" =>
                       BuiltPositions(B) =
                           Concat([p \in 1..Len(g.coordinates) |->
                                      Vertices(g.coordinates[p])])

\* C18: a geometry of a type other than the six known ones gives no label and
\* no error: endData starts its batch, with no point and no text object.
C18_UnknownGeometryNoLabels ==
    \A b \in DOMAIN batches :
        batches[b].items[1].geometry.type
            \notin {"Point", "MultiPoint", "LineString", "MultiLineString",
                     "Polygon", "MultiPolygon"}
        => /\ batches[b].point_objs = <<>>
           /\ batches[b].text_objs = <<>>

C18_Witness ==
    \E b \in DOMAIN batches :
        /\ batches[b].items[1].geometry.type = "GeometryCollection"
        /\ batches[b].items[1].geometry.coordinates # <<>>
        /\ batches[b].items[1].text = "required"
        /\ batches[b].point_objs = <<>>

\* C19: when the finalization callback of a batch runs, the textures of the
\* text pass are appended, in order and once each, to the textures of the tile
\* data, after those already there; with no textures from the text pass or no
\* tile data the list is unchanged.
C19_Handoff ==
    \A b \in DOMAIN batches :
        (batches[b].stage = "joined"
            /\ \A b2 \in DOMAIN batches' : ~Continues(b2, batches[b]))
        => LET B   == batches[b]
               old == tile_textures[B.tile]
               new == tile_textures'[B.tile]
           IN  IF B.data /\ B.textures # <<>>
               THEN /\ Len(new) = Len(old) + Len(B.textures)
                    /\ \A i \in 1..Len(old) : new[i] = old[i]
                    /\ \A i \in 1..Len(B.textures) : new[Len(old) + i] = B.textures[i]
               ELSE new = old

C19_EachTextureOnce ==
    \A t \in Tiles : \A i, j \in 1..Len(tile_textures[t]) :
        tile_textures[t][i] = tile_textures[t][j] => i = j

C19_TexturesHandedOver == [](C19_EachTextureOnce) /\ [][C19_Handoff]_vars

C19_Witness ==
    /\ Len(tile_textures[1]) = 3
    /\ tile_textures[1][1][1] # tile_textures[1][3][1]

\* C20: the angle handed to the quad encoder is the label's angle times 4096,
\* the label's angle being label.angle, or style.angle when a straight label
\* has none; read back from the 16-bit attribute and divided by 4096 it is
\* within one step (1/4096 radian) of that angle.
C20_LabelAngle ==
    IF quad.label.type = "curved" THEN quad.label.angle
    ELSE IF quad.label.angle # <<>> THEN quad.label.angle[1]
    ELSE quad.style.angle

C20_AngleRoundTrip ==
    quad.pc = "done" =>
        \A i \in 1..Len(quad.out.calls) :
            LET d == DecodedAngle(StoredShort(quad.out.calls[i].angle)) - C20_LabelAngle
            IN  /\ quad.out.calls[i].angle = C20_LabelAngle * 4096
                /\ d < AngleUnit \div 4096
                /\ -d < AngleUnit \div 4096

\* ------------------------------------------------------------------- C21
\* the text of a queued item never has a smaller priority value than its
\* point has, plus one half
C21_TextBelowPoint ==
    \A t \in Tiles : \A i \in DOMAIN queues[t] :
        \A f \in DOMAIN queues[t][i].text_feature :
            PriorityLeq(PlusHalf(queues[t][i].style.priority),
                        queues[t][i].text_feature[f].layout.priority)

\* C21: for every queued feature with an attached text, the text layout's
\* priority is the point's priority + 0.5 when the text draw sets no priority
\* and max(text priority, point priority + 0.5) when it sets one, hence at
\* least the point's priority + 0.5.
C21_TextPriority ==
    /\ C21_TextBelowPoint
    /\ \A t \in Tiles : \A i \in DOMAIN queues[t] :
        \A f \in DOMAIN queues[t][i].text_feature :
            LET item  == queues[t][i]
                own   == item.draw.text_priority
                below == PlusHalf(item.style.priority)
            IN  item.text_feature[f].layout.priority =
                    IF own = <<>> THEN below
                    ELSE PriorityMax(PriorityValue(0, 2 * own[1]), below)

\* ------------------------------------------------------------------- C22
\* C22: when the last endData returned for a canceled tile and the next endData
\* builds the same tile (no reset in between), the batch that build starts
\* holds only features queued after the canceled endData returned: nothing
\* queued for the canceled build is processed.
C22_CanceledBuildNeverEncoded ==
    [][(/\ ret.outcome = "resolved"
        /\ ret'.outcome = "pending"
        /\ ret'.tile = ret.tile)
       => \A i \in DOMAIN batches'[Len(batches')].items :
              batches'[Len(batches')].items[i].id > ret.n]_vars

\* ------------------------------------------------------------------- C23
\* a tile with queued features has its points collision group registered, a
\* queued item with a text feature has the tile's text group registered
C23_QueuedIsRegistered ==
    \A t \in Tiles :
        /\ queues[t] # <<>> => <<"points", t>> \in collision_styles
        /\ \A i \in DOMAIN queues[t] :
               queues[t][i].text_feature # <<>> => <<"text", t>> \in collision_styles

\* an addFeature call that queues nothing registers nothing
C23_NotQueuedNotRegistered ==
    (ncalls' # ncalls /\ queues' = queues) => collision_styles' = collision_styles

\* C23: after any sequence of addFeature calls, a tile's queue is non-empty
\* only if its points collision group is registered, a queued item carries a
\* text feature only if the tile's text collision group is registered, and a
\* call that does not queue its feature (stale generation, neither colour nor
\* texture, unresolved sprite) registers no collision group.
C23_RegistrationFollowsQueue ==
    []C23_QueuedIsRegistered /\ [][C23_NotQueuedNotRegistered]_vars

\* one tile holds a feature with text, a call on the other tile queued nothing
\* and left it unregistered
C23_Witness ==
    \E t \in Tiles :
        /\ \E i \in DOMAIN queues[t] : queues[t][i].text_feature # <<>>
        /\ <<"text", t>> \in collision_styles
        /\ ncalls > Len(queues[1]) + Len(queues[2])
        /\ \A u \in Tiles \ {t} :
               queues[u] = <<>> /\ <<"points", u>> \notin collision_styles

\* ------------------------------------------------------------------- C24
\* how many sources of a kind a block holds for a light
Injected(block, kind, name) ==
    Cardinality({i \in DOMAIN block : block[i].kind = kind /\ block[i].name = name})

\* the blocks hold what the last inject call alone injects: one instance
\* definition and one 'setup' assignment per light of its set when lighting
\* was enabled, nothing from lights when it was not
C24_OnlyLastInjection ==
    last_inject.n > 0 =>
        /\ \A name \in LightNames :
               LET once == IF /\ last_inject.enabled
                              /\ \E i \in DOMAIN last_inject.lights :
                                     last_inject.lights[i] = name
                           THEN 1 ELSE 0
               IN  /\ Injected(blocks.lighting, "instance", name) = once
                   /\ Injected(blocks.setup, "assign", name) = once
        /\ ~last_inject.enabled => blocks.lighting = <<>>

\* a second inject call with the same lights leaves the blocks as they were
C24_InjectTwice ==
    (/\ last_inject.n > 0
     /\ last_inject'.n # last_inject.n
     /\ last_inject'.lights = last_inject.lights
     /\ last_inject'.enabled = last_inject.enabled)
    => blocks' = blocks

\* C24: Light.inject clears all previous injections: after any sequence of
\* inject calls the blocks contributed by lights hold only what the most
\* recent call injected (each light of its set with one instance definition
\* and one 'setup' assignment when lighting is enabled, nothing when it is
\* not), and injecting the same lights twice is the same as injecting once.
C24_InjectReplaces ==
    []C24_OnlyLastInjection /\ [][C24_InjectTwice]_vars
====
